---- MODULE Spec2Model ----
(***************************************************************************)
(* Tool-selection orchestrator of src/server/actions/orchestrator.ts.      *)
(*                                                                         *)
(* getToolsFromOrchestrator(messages, confirmationResultMessage) is an     *)
(* async function: it issues one generateObject call (the classifier),     *)
(* suspends at the await, and after the promise settles either rethrows    *)
(* the rejection or builds its result from the classifier's array.         *)
(* Several invocations may be suspended at the same time; the model keeps  *)
(* one slot of state per invocation.                                       *)
(***************************************************************************)
EXTENDS Naturals, Sequences, FiniteSets

\* ------------------------------------------------------------------ bounds

\* Invocations of the specification Spec.
NumInv == 1
\* Longest candidate array the classifier returns under Spec.
MaxCands == 2
\* Invocations of the specification SpecConc.
ConcInv == 2
\* Longest candidate array the classifier returns under SpecConc.
ConcCands == 1
\* Invocations of sendTelegramNotification.execute under SpecTelegram.
TgInv == 2

Max(a, b) == IF a >= b THEN a ELSE b

Invs == 1..NumInv
ConcInvs == 1..ConcInv
AllInvs == 1..Max(NumInv, ConcInv)
TgInvs == 1..TgInv

\* ------------------------------------------------------------ JS values

\* The value undefined, distinct from every string and every array.
Undefined == [tag |-> "undefined"]
\* A JS string value.
Str(s) == [tag |-> "string", value |-> s]
\* A JS array of strings.
Arr(items) == [tag |-> "array", items |-> items]

\* Tool identifiers the classifier may emit (free-form strings; the schema
\* is z.string(), no enumeration).
Tools == {"searchToken", "askForConfirmation", "analyzeBundles"}

\* Usage records returned by the classifier (opaque to the orchestrator).
Usages == {"usageA", "usageB"}

\* Errors with which generateObject may reject.
Errors == {"networkError", "schemaViolation"}

\* confirmationResultMessage : string | undefined
ConfirmationArgs == {Undefined, Str(""), Str("yes")}

SeqsUpTo(S, n) == UNION {[1..k -> S] : k \in 0..n}

CandArrays == SeqsUpTo(Tools, MaxCands)

\* Under SpecConc the classifier draws from two identifiers: one of the
\* baseline and one outside it.
ConcTools == {"searchToken", "analyzeBundles"}
ConcCandArrays == SeqsUpTo(ConcTools, ConcCands)

\* ------------------------------------------------------- pure functions

\* Mutant of Truthy: a test for "argument supplied" (!== undefined).
TruthyDefined(v) == v.tag = "string"

\* JS truthiness of a value of type string | undefined, as used by the
\* conditional operator: undefined and "" are falsy.
Truthy(v) == v.tag = "string" /\ v.value # ""

Includes(seq, x) == \E k \in 1..Len(seq) : seq[k] = x

Range(seq) == {seq[k] : k \in 1..Len(seq)}

\* Mutant of SetAdd: appends without the membership test.
SetAddAlways(s, x) == Append(s, x)

\* Set.prototype.add on a JS Set kept in insertion order.
SetAdd(s, x) == IF Includes(s, x) THEN s ELSE Append(s, x)

RECURSIVE NewSetFrom(_, _)
NewSetFrom(acc, iter) ==
    IF iter = << >> THEN acc
    ELSE NewSetFrom(SetAdd(acc, Head(iter)), Tail(iter))

\* new Set(iterable): the distinct elements in order of first occurrence.
NewSet(iter) == NewSetFrom(<< >>, iter)

\* Mutants of confirmationTools.
confirmationToolsSearchOnly(crm) == <<"searchToken">>
confirmationToolsBoth(crm) == <<"searchToken", "askForConfirmation">>

\* const confirmationTools = confirmationResultMessage ? [...] : [...]
confirmationTools(crm) ==
    IF Truthy(crm) THEN <<"searchToken">>
    ELSE <<"searchToken", "askForConfirmation">>

RECURSIVE SelectSeq2(_, _)
SelectSeq2(seq, S) ==
    IF seq = << >> THEN << >>
    ELSE IF Head(seq) \in S THEN <<Head(seq)>> \o SelectSeq2(Tail(seq), S)
    ELSE SelectSeq2(Tail(seq), S)

\* Mutant of allTools: candidates are filtered against a registry.
allToolsFiltered(crm, toolsRequired) ==
    NewSet(confirmationTools(crm)
           \o SelectSeq2(toolsRequired, {"searchToken", "askForConfirmation"}))

\* Mutant of allTools: the baseline depends on the classifier's output.
allToolsDependent(crm, toolsRequired) ==
    NewSet((IF Includes(toolsRequired, "searchToken")
            THEN <<"searchToken", "askForConfirmation">>
            ELSE <<"searchToken">>) \o toolsRequired)

\* [...new Set([...confirmationTools, ...toolsRequired])]
allTools(crm, toolsRequired) ==
    NewSet(confirmationTools(crm) \o toolsRequired)

\* Mutant of EmptyResult: an empty array instead of undefined.
EmptyResultArray(usage) == [usage |-> usage, toolsRequired |-> Arr(<< >>)]

\* return { usage, toolsRequired: undefined }
EmptyResult(usage) == [usage |-> usage, toolsRequired |-> Undefined]

\* The code after the await, for a fulfilled classifier call.
SelectionResult(crm, toolsRequired, usage) ==
    IF Len(toolsRequired) = 0
    THEN EmptyResult(usage)
    ELSE [usage |-> usage, toolsRequired |-> Arr(allTools(crm, toolsRequired))]

\* ---------------------------------------------------------------- state

VARIABLES
    pc,                          \* per invocation: idle, awaiting, returned, thrown
    confirmationResultMessage,   \* per invocation: the argument it was given
    generateObject,              \* per invocation: the classifier call's promise
    calls,                       \* per invocation: generateObject calls issued
    outcome,                     \* per invocation: what the caller received
    interleaved,                 \* observer: some invocation resumed while another was suspended
    userId,                      \* telegramTools.sendTelegramNotification.userId (one field, shared)
    tgPc,                        \* per execute invocation: idle, awaitCheck, awaitSend, done
    tgCaller,                    \* per execute invocation: the identity its caller set for it
    tgArgs,                      \* per execute invocation: { username, message }
    tgCheckArg,                  \* per execute invocation: argument of checkTelegramUsername
    tgSendArg,                   \* per execute invocation: argument of sendTelegramNotification
    tgResult                     \* per execute invocation: the value execute returned

orchVars == <<pc, confirmationResultMessage, generateObject, calls, outcome, interleaved>>
tgVars == <<userId, tgPc, tgCaller, tgArgs, tgCheckArg, tgSendArg, tgResult>>
vars == <<orchVars, tgVars>>

NoPromise == [state |-> "none"]
Pending == [state |-> "pending"]
Fulfilled(object, usage) == [state |-> "fulfilled", object |-> object, usage |-> usage]
Rejected(e) == [state |-> "rejected", error |-> e]

NoOutcome == [kind |-> "none"]
Returned(r) == [kind |-> "returned", value |-> r]
Thrown(e) == [kind |-> "thrown", error |-> e]

\* ------------------------------------------- telegram: values and state

\* The value null (the initial userId of the tool object).
Null == [tag |-> "null"]

\* Identities a caller stores on the tool object before calling execute.
TgIdentities == {Str("userA"), Str("userB")}

\* execute's arguments: username is optional, message is a string.
TgUsernames == {Undefined, Str("@given")}
TgMessage == "hello"

\* usernameCheck.username as checkTelegramUsername may resolve it.
TgSavedUsernames == {Undefined, Str("@saved")}

MISSING_USERNAME_ERROR == "MISSING_USERNAME_ERROR"
BOT_NOT_STARTED_ERROR == "BOT_NOT_STARTED_ERROR"

\* response of sendTelegramNotification: response?.data?.data is missing,
\* or holds { success, error, botId }.
TgResponses ==
    {Undefined,
     [tag |-> "data", success |-> TRUE, error |-> Undefined, botId |-> "bot"],
     [tag |-> "data", success |-> FALSE, error |-> Str(BOT_NOT_STARTED_ERROR),
      botId |-> "bot"]}

\* Values a server action may throw: an Error with a message, or another value.
TgThrown == {[isError |-> TRUE, message |-> "boom"], [isError |-> FALSE]}

\* a || b for operands of type string | null | undefined.
Or(a, b) == IF Truthy(a) THEN a ELSE b

TgNone == [tag |-> "none"]

TgInit ==
    /\ userId = Null
    /\ tgPc = [i \in TgInvs |-> "idle"]
    /\ tgCaller = [i \in TgInvs |-> Null]
    /\ tgArgs = [i \in TgInvs |-> TgNone]
    /\ tgCheckArg = [i \in TgInvs |-> TgNone]
    /\ tgSendArg = [i \in TgInvs |-> TgNone]
    /\ tgResult = [i \in TgInvs |-> TgNone]

Init ==
    /\ pc = [i \in AllInvs |-> "idle"]
    /\ confirmationResultMessage = [i \in AllInvs |-> Undefined]
    /\ generateObject = [i \in AllInvs |-> NoPromise]
    /\ calls = [i \in AllInvs |-> 0]
    /\ outcome = [i \in AllInvs |-> NoOutcome]
    /\ interleaved = FALSE
    /\ TgInit

\* -------------------------------------------------------------- actions

\* Mutant of Invoke: the argument is stashed in one place shared by all
\* invocations.
InvokeShared(i, crm) ==
    /\ pc[i] = "idle"
    /\ pc' = [pc EXCEPT ![i] = "awaiting"]
    /\ confirmationResultMessage' = [j \in AllInvs |-> crm]
    /\ generateObject' = [generateObject EXCEPT ![i] = Pending]
    /\ calls' = [calls EXCEPT ![i] = @ + 1]
    /\ UNCHANGED <<outcome, interleaved>>
    /\ UNCHANGED tgVars

\* The caller invokes getToolsFromOrchestrator: the function runs up to the
\* await, issuing the generateObject call.
Invoke(i, crm) ==
    /\ pc[i] = "idle"
    /\ pc' = [pc EXCEPT ![i] = "awaiting"]
    /\ confirmationResultMessage' = [confirmationResultMessage EXCEPT ![i] = crm]
    /\ generateObject' = [generateObject EXCEPT ![i] = Pending]
    /\ calls' = [calls EXCEPT ![i] = @ + 1]
    /\ UNCHANGED <<outcome, interleaved>>
    /\ UNCHANGED tgVars

\* The classifier answers invocation i's call with an array and a usage record.
Fulfil(i, object, usage) ==
    /\ generateObject[i].state = "pending"
    /\ generateObject' = [generateObject EXCEPT ![i] = Fulfilled(object, usage)]
    /\ UNCHANGED <<pc, confirmationResultMessage, calls, outcome, interleaved>>
    /\ UNCHANGED tgVars

\* The classifier call of invocation i fails.
Reject(i, e) ==
    /\ generateObject[i].state = "pending"
    /\ generateObject' = [generateObject EXCEPT ![i] = Rejected(e)]
    /\ UNCHANGED <<pc, confirmationResultMessage, calls, outcome, interleaved>>
    /\ UNCHANGED tgVars

Observe(i) == interleaved' = (interleaved \/ \E j \in AllInvs \ {i} : pc[j] = "awaiting")

\* Mutant of Resume: a rejected call is retried once.
ResumeRetry(i) ==
    /\ pc[i] = "awaiting"
    /\ generateObject[i].state \in {"fulfilled", "rejected"}
    /\ IF generateObject[i].state = "rejected" /\ calls[i] < 2
       THEN /\ generateObject' = [generateObject EXCEPT ![i] = Pending]
            /\ calls' = [calls EXCEPT ![i] = @ + 1]
            /\ UNCHANGED <<pc, outcome>>
       ELSE /\ pc' = [pc EXCEPT ![i] =
                       IF generateObject[i].state = "rejected" THEN "thrown" ELSE "returned"]
            /\ outcome' = [outcome EXCEPT ![i] =
                       IF generateObject[i].state = "rejected"
                       THEN Thrown(generateObject[i].error)
                       ELSE Returned(SelectionResult(confirmationResultMessage[i],
                                generateObject[i].object, generateObject[i].usage))]
            /\ UNCHANGED <<generateObject, calls>>
    /\ Observe(i)
    /\ UNCHANGED confirmationResultMessage
    /\ UNCHANGED tgVars

\* Mutant of Resume: a rejection is caught and reported as "no tools required".
ResumeCatch(i) ==
    /\ pc[i] = "awaiting"
    /\ generateObject[i].state \in {"fulfilled", "rejected"}
    /\ pc' = [pc EXCEPT ![i] = "returned"]
    /\ outcome' = [outcome EXCEPT ![i] =
           IF generateObject[i].state = "rejected"
           THEN Returned(EmptyResult("usageA"))
           ELSE Returned(SelectionResult(confirmationResultMessage[i],
                    generateObject[i].object, generateObject[i].usage))]
    /\ Observe(i)
    /\ UNCHANGED <<confirmationResultMessage, generateObject, calls>>
    /\ UNCHANGED tgVars

\* The await completes: a rejection propagates out of the function (there is
\* no try/catch), a fulfilment runs lines 27-38 to the return.
Resume(i) ==
    /\ pc[i] = "awaiting"
    /\ generateObject[i].state \in {"fulfilled", "rejected"}
    /\ IF generateObject[i].state = "rejected"
       THEN /\ pc' = [pc EXCEPT ![i] = "thrown"]
            /\ outcome' = [outcome EXCEPT ![i] = Thrown(generateObject[i].error)]
       ELSE /\ pc' = [pc EXCEPT ![i] = "returned"]
            /\ outcome' = [outcome EXCEPT ![i] =
                   Returned(SelectionResult(confirmationResultMessage[i],
                       generateObject[i].object, generateObject[i].usage))]
    /\ Observe(i)
    /\ UNCHANGED <<confirmationResultMessage, generateObject, calls>>
    /\ UNCHANGED tgVars

Next ==
    \E i \in Invs :
        \/ \E crm \in ConfirmationArgs : Invoke(i, crm)
        \/ \E object \in CandArrays, usage \in Usages : Fulfil(i, object, usage)
        \/ \E e \in Errors : Reject(i, e)
        \/ Resume(i)

Spec == Init /\ [][Next]_vars

NextConc ==
    \E i \in ConcInvs :
        \/ \E crm \in ConfirmationArgs : Invoke(i, crm)
        \/ \E object \in ConcCandArrays, usage \in Usages : Fulfil(i, object, usage)
        \/ \E e \in Errors : Reject(i, e)
        \/ Resume(i)

SpecConc == Init /\ [][NextConc]_vars

\* ---------------------------------------------------- telegram: actions

\* The caller stores the identity of the request on the shared tool object
\* (telegramTools.sendTelegramNotification.userId = u).
CallerSetsUserId(u) == userId' = u

\* The catch block of execute: the failure result for a thrown value.
TgCaught(err) ==
    [success |-> FALSE,
     error |-> IF err.isError THEN err.message ELSE "Failed to send notification"]

\* The caller sets userId and calls execute({ username, message }); execute
\* runs to its first await, calling checkTelegramUsername(this.userId || undefined).
TgExecute(i, u, username) ==
    /\ tgPc[i] = "idle"
    /\ CallerSetsUserId(u)
    /\ tgCaller' = [tgCaller EXCEPT ![i] = u]
    /\ tgArgs' = [tgArgs EXCEPT ![i] = [username |-> username, message |-> TgMessage]]
    /\ tgCheckArg' = [tgCheckArg EXCEPT ![i] = Or(userId', Undefined)]
    /\ tgPc' = [tgPc EXCEPT ![i] = "awaitCheck"]
    /\ UNCHANGED <<tgSendArg, tgResult>>
    /\ UNCHANGED orchVars

\* checkTelegramUsername resolves; execute continues to the early return or
\* to its second await, reading this.userId again for the send.
TgCheckResolved(i, saved) ==
    /\ tgPc[i] = "awaitCheck"
    /\ IF ~Truthy(tgArgs[i].username) /\ ~Truthy(saved)
       THEN /\ tgResult' = [tgResult EXCEPT ![i] =
                    [success |-> FALSE, error |-> MISSING_USERNAME_ERROR]]
            /\ tgPc' = [tgPc EXCEPT ![i] = "done"]
            /\ UNCHANGED tgSendArg
       ELSE /\ tgSendArg' = [tgSendArg EXCEPT ![i] =
                    [username |-> Or(tgArgs[i].username, saved),
                     userId |-> Or(userId, Undefined),
                     text |-> tgArgs[i].message]]
            /\ tgPc' = [tgPc EXCEPT ![i] = "awaitSend"]
            /\ UNCHANGED tgResult
    /\ UNCHANGED <<userId, tgCaller, tgArgs, tgCheckArg>>
    /\ UNCHANGED orchVars

\* checkTelegramUsername throws; the catch block returns the failure.
TgCheckThrew(i, err) ==
    /\ tgPc[i] = "awaitCheck"
    /\ tgResult' = [tgResult EXCEPT ![i] = TgCaught(err)]
    /\ tgPc' = [tgPc EXCEPT ![i] = "done"]
    /\ UNCHANGED <<userId, tgCaller, tgArgs, tgCheckArg, tgSendArg>>
    /\ UNCHANGED orchVars

\* sendTelegramNotification resolves; execute returns its result.
TgSendResolved(i, response) ==
    /\ tgPc[i] = "awaitSend"
    /\ tgResult' = [tgResult EXCEPT ![i] =
           IF response = Undefined
           THEN [success |-> FALSE, error |-> "No response from Telegram action"]
           ELSE IF ~response.success
           THEN [success |-> response.success, error |-> response.error,
                 botId |-> response.botId]
           ELSE [success |-> TRUE, data |-> "Notification sent successfully",
                 noFollowUp |-> TRUE, botId |-> response.botId]]
    /\ tgPc' = [tgPc EXCEPT ![i] = "done"]
    /\ UNCHANGED <<userId, tgCaller, tgArgs, tgCheckArg, tgSendArg>>
    /\ UNCHANGED orchVars

\* sendTelegramNotification throws; the catch block returns the failure.
TgSendThrew(i, err) ==
    /\ tgPc[i] = "awaitSend"
    /\ tgResult' = [tgResult EXCEPT ![i] = TgCaught(err)]
    /\ tgPc' = [tgPc EXCEPT ![i] = "done"]
    /\ UNCHANGED <<userId, tgCaller, tgArgs, tgCheckArg, tgSendArg>>
    /\ UNCHANGED orchVars

NextTelegram ==
    \E i \in TgInvs :
        \/ \E u \in TgIdentities, username \in TgUsernames : TgExecute(i, u, username)
        \/ \E saved \in TgSavedUsernames : TgCheckResolved(i, saved)
        \/ \E err \in TgThrown : TgCheckThrew(i, err)
        \/ \E response \in TgResponses : TgSendResolved(i, response)
        \/ \E err \in TgThrown : TgSendThrew(i, err)

SpecTelegram == Init /\ [][NextTelegram]_vars

TypeOK ==
    /\ pc \in [AllInvs -> {"idle", "awaiting", "returned", "thrown"}]
    /\ confirmationResultMessage \in [AllInvs -> ConfirmationArgs]
    /\ calls \in [AllInvs -> 0..2]
    /\ interleaved \in BOOLEAN
    /\ userId \in {Null} \cup TgIdentities
    /\ tgPc \in [TgInvs -> {"idle", "awaitCheck", "awaitSend", "done"}]
    /\ tgCaller \in [TgInvs -> {Null} \cup TgIdentities]

\* ------------------------------------------------------------- claims

IsReturned(i) == pc[i] = "returned" /\ generateObject[i].state = "fulfilled"
Candidates(i) == generateObject[i].object
ToolsRequired(i) == outcome[i].value.toolsRequired
NonEmptyReturn(i) == IsReturned(i) /\ Len(Candidates(i)) > 0
ResultSet(i) == Range(ToolsRequired(i).items)

\* C1: when the classifier returns an array of length 0, for every
\* confirmationResultMessage, toolsRequired is undefined (not an empty
\* array) and the usage returned is the classifier's usage.
C1_EmptyGivesUndefined ==
    \A i \in AllInvs :
        (IsReturned(i) /\ Len(Candidates(i)) = 0) =>
            /\ ToolsRequired(i) = Undefined
            /\ ToolsRequired(i).tag # "array"
            /\ outcome[i].value.usage = generateObject[i].usage

C1_Witness ==
    \E i \in AllInvs :
        /\ IsReturned(i) /\ Candidates(i) = << >>
        /\ confirmationResultMessage[i] = Str("yes")
        /\ generateObject[i].usage = "usageB"
        /\ outcome[i].kind = "returned"

\* C2: for a non-empty candidate array and confirmationResultMessage
\* undefined, the result contains both searchToken and askForConfirmation.
C2_BaselineWithoutConfirmation ==
    \A i \in AllInvs :
        (NonEmptyReturn(i) /\ confirmationResultMessage[i] = Undefined) =>
            /\ ToolsRequired(i).tag = "array"
            /\ {"searchToken", "askForConfirmation"} \subseteq ResultSet(i)

C2_Witness ==
    \E i \in AllInvs :
        /\ NonEmptyReturn(i) /\ Candidates(i) = <<"analyzeBundles">>
        /\ confirmationResultMessage[i] = Undefined
        /\ outcome[i].kind = "returned"

\* C3: for a non-empty candidate array and a non-empty string
\* confirmationResultMessage, the result contains searchToken, and contains
\* askForConfirmation iff the candidate array contains it.
C3_BaselineWithConfirmation ==
    \A i \in AllInvs :
        (/\ NonEmptyReturn(i)
         /\ confirmationResultMessage[i].tag = "string"
         /\ confirmationResultMessage[i].value # "") =>
            /\ ToolsRequired(i).tag = "array"
            /\ "searchToken" \in ResultSet(i)
            /\ ("askForConfirmation" \in ResultSet(i)
                    <=> "askForConfirmation" \in Range(Candidates(i)))

C3_Witness ==
    \E i \in AllInvs :
        /\ NonEmptyReturn(i) /\ Candidates(i) = <<"analyzeBundles">>
        /\ confirmationResultMessage[i] = Str("yes")
        /\ ResultSet(i) = {"searchToken", "analyzeBundles"}

\* C4 as claimed: for a non-empty candidate array without askForConfirmation,
\* every supplied string (the empty string included) withholds
\* askForConfirmation, and only undefined adds it.
C4_Original ==
    \A i \in AllInvs :
        (NonEmptyReturn(i) /\ ~Includes(Candidates(i), "askForConfirmation")) =>
            /\ confirmationResultMessage[i].tag = "string" =>
                   /\ "askForConfirmation" \notin ResultSet(i)
                   /\ ResultSet(i) \ Range(Candidates(i)) \subseteq {"searchToken"}
            /\ confirmationResultMessage[i] = Undefined =>
                   "askForConfirmation" \in ResultSet(i)

\* C4 (amended): for a non-empty candidate array without askForConfirmation,
\* askForConfirmation is withheld exactly when confirmationResultMessage is
\* a non-empty string; when it is undefined or the empty string,
\* askForConfirmation is added.
C4_TruthyDecidesBaseline ==
    \A i \in AllInvs :
        (NonEmptyReturn(i) /\ ~Includes(Candidates(i), "askForConfirmation")) =>
            /\ ResultSet(i) \ Range(Candidates(i)) \subseteq
                   {"searchToken", "askForConfirmation"}
            /\ "askForConfirmation" \in ResultSet(i)
                   <=> confirmationResultMessage[i] \in {Undefined, Str("")}

C4_Witness ==
    \E i \in AllInvs :
        /\ NonEmptyReturn(i) /\ Candidates(i) = <<"analyzeBundles">>
        /\ confirmationResultMessage[i] = Str("")
        /\ "askForConfirmation" \in ResultSet(i)

NoDuplicates(seq) ==
    \A a, b \in 1..Len(seq) : a # b => seq[a] # seq[b]

\* C5: a returned toolsRequired that is not undefined is a non-empty array
\* without repeated identifiers.
C5_NonEmptyDuplicateFree ==
    \A i \in AllInvs :
        (IsReturned(i) /\ ToolsRequired(i) # Undefined) =>
            /\ ToolsRequired(i).tag = "array"
            /\ Len(ToolsRequired(i).items) > 0
            /\ NoDuplicates(ToolsRequired(i).items)

C5_Witness ==
    \E i \in AllInvs :
        /\ IsReturned(i)
        /\ Candidates(i) = <<"analyzeBundles", "analyzeBundles">>
        /\ ToolsRequired(i) # Undefined
        /\ Len(ToolsRequired(i).items) = 3

\* C6: for a non-empty candidate array the identifiers returned are exactly
\* baseline union candidates; ['analyzeBundles'] without a confirmation
\* gives the three identifiers, ['searchToken','searchToken'] gives two.
C6_ExactUnion ==
    \A i \in AllInvs :
        NonEmptyReturn(i) =>
            /\ ResultSet(i) = Range(confirmationTools(confirmationResultMessage[i]))
                                  \cup Range(Candidates(i))
            /\ (Candidates(i) = <<"analyzeBundles">>
                    /\ confirmationResultMessage[i] = Undefined) =>
                   ResultSet(i) = {"searchToken", "askForConfirmation", "analyzeBundles"}
            /\ (Candidates(i) = <<"searchToken", "searchToken">>
                    /\ confirmationResultMessage[i] = Undefined) =>
                   /\ ResultSet(i) = {"searchToken", "askForConfirmation"}
                   /\ Len(ToolsRequired(i).items) = 2

C6_Witness ==
    \E i \in AllInvs :
        /\ NonEmptyReturn(i)
        /\ Candidates(i) = <<"searchToken", "searchToken">>
        /\ confirmationResultMessage[i] = Undefined
        /\ Len(ToolsRequired(i).items) = 2

\* C7: every invocation issues exactly one classifier call, in every
\* outcome, and nothing is handed to the caller before the call has settled.
C7_ExactlyOneCall ==
    \A i \in AllInvs :
        /\ pc[i] = "idle" => calls[i] = 0
        /\ pc[i] # "idle" => calls[i] = 1
        /\ outcome[i].kind # "none" =>
               /\ pc[i] \in {"returned", "thrown"}
               /\ generateObject[i].state \in {"fulfilled", "rejected"}
        /\ pc[i] \in {"returned", "thrown"} => outcome[i].kind = pc[i]

C7_Witness ==
    \E i \in AllInvs :
        /\ pc[i] = "thrown" /\ calls[i] = 1
        /\ generateObject[i].state = "rejected"

\* C8: when the classifier call fails the invocation fails with that same
\* error and returns no result record; a failure is never reported as the
\* empty result and an empty result is never reported as a failure.
C8_FailurePropagates ==
    \A i \in AllInvs :
        /\ (generateObject[i].state = "rejected" /\ pc[i] # "awaiting") =>
               /\ pc[i] = "thrown"
               /\ outcome[i] = Thrown(generateObject[i].error)
        /\ outcome[i].kind = "returned" => generateObject[i].state = "fulfilled"
        /\ outcome[i].kind = "thrown" => generateObject[i].state = "rejected"

C8_Witness ==
    \E i \in AllInvs :
        /\ generateObject[i] = Rejected("schemaViolation")
        /\ outcome[i] = Thrown("schemaViolation")

\* What invocation i hands to its caller, from its own argument and the
\* answer to its own call.
C9_OwnInputs(i) ==
    /\ pc[i] \in {"idle", "awaiting"} => outcome[i] = NoOutcome
    /\ pc[i] = "thrown" =>
           /\ generateObject[i].state = "rejected"
           /\ outcome[i] = Thrown(generateObject[i].error)
    /\ pc[i] = "returned" =>
           /\ generateObject[i].state = "fulfilled"
           /\ outcome[i].kind = "returned"
           /\ outcome[i].value.usage = generateObject[i].usage
           /\ IF Len(generateObject[i].object) = 0
              THEN outcome[i].value.toolsRequired = Undefined
              ELSE /\ outcome[i].value.toolsRequired.tag = "array"
                   /\ Range(outcome[i].value.toolsRequired.items) =
                          Range(generateObject[i].object) \cup {"searchToken"} \cup
                          (IF confirmationResultMessage[i] \in {Undefined, Str("")}
                           THEN {"askForConfirmation"} ELSE {})

\* A step touches the state of at most one invocation.
C9_Frame ==
    \E i \in AllInvs :
        \A j \in AllInvs \ {i} :
            /\ pc'[j] = pc[j]
            /\ confirmationResultMessage'[j] = confirmationResultMessage[j]
            /\ generateObject'[j] = generateObject[j]
            /\ calls'[j] = calls[j]
            /\ outcome'[j] = outcome[j]

\* C9: under any interleaving of concurrent invocations, each invocation's
\* result is fixed by its own confirmationResultMessage and the answer to
\* its own classifier call, and no step of one invocation changes the state
\* of another.
C9_Independent ==
    /\ [](\A i \in AllInvs : C9_OwnInputs(i))
    /\ [][C9_Frame]_vars

C9_Witness ==
    /\ interleaved
    /\ pc[1] = "returned" /\ pc[2] = "returned"
    /\ confirmationResultMessage[1] = Undefined
    /\ confirmationResultMessage[2] = Str("yes")
    /\ generateObject[1].object = <<"analyzeBundles">>
    /\ generateObject[2].object = <<"analyzeBundles">>
    /\ outcome[1] # outcome[2]

\* C10: the augmentation step is idempotent: applied again, with the same
\* confirmationResultMessage, to the array it returned, it yields the same
\* set of identifiers.
C10_AugmentIdempotent ==
    \A i \in AllInvs :
        NonEmptyReturn(i) =>
            Range(allTools(confirmationResultMessage[i], ToolsRequired(i).items))
                = ResultSet(i)

C10_Witness ==
    \E i \in AllInvs :
        /\ NonEmptyReturn(i)
        /\ Candidates(i) = <<"analyzeBundles", "askForConfirmation">>
        /\ confirmationResultMessage[i] = Str("yes")
        /\ ResultSet(i) = {"searchToken", "analyzeBundles", "askForConfirmation"}

\* C11: within one invocation of sendTelegramNotification.execute, the
\* identity passed to checkTelegramUsername is the identity passed to the
\* later sendTelegramNotification, and it is the identity set for that
\* invocation, also when another invocation sets userId on the shared tool
\* object while this one is suspended at an await.
C11_SameIdentity ==
    \A i \in TgInvs :
        /\ tgCheckArg[i] # TgNone => tgCheckArg[i] = tgCaller[i]
        /\ tgSendArg[i] # TgNone =>
               /\ tgSendArg[i].userId = tgCheckArg[i]
               /\ tgSendArg[i].userId = tgCaller[i]

====
